---- MODULE Spec2Model ----
(***************************************************************************)
(* Graph execution engine of the workflow generator.                       *)
(*                                                                         *)
(* Spec     : one run of VisualWorkflowExecutor.execute_workflow driving a *)
(*            DynamicWorkflow (visual_workflow_executor.py), preceded by   *)
(*            the create endpoint's validation (visual_workflows.py).      *)
(* SpecCtl  : the run table of EnhancedVisualWorkflowExecutor              *)
(*            (enhanced_workflow_executor.py) under the control endpoints  *)
(*            of visual_workflows.py.                                      *)
(* SpecVal  : _validate_visual_workflow applied to node and connection     *)
(*            lists with repeated node ids and absent connection ends.     *)
(* SpecEmail: one run of EmailAutomationWorkflow over the step tracking    *)
(*            WorkflowExecutionContext (enhanced_workflow_executor.py).    *)
(* SpecList : the run table of VisualWorkflowExecutor under concurrent     *)
(*            execute_workflow calls and list_active_executions.           *)
(* SpecReg  : NodeTypeRegistry under register_node_type and its lookups    *)
(*            (node_registry.py).                                          *)
(* SpecApi  : the workflow endpoints of the step based API (workflows.py)  *)
(*            over the collections of WorkflowCRUD (crud/workflow.py).     *)
(* SpecSeq  : one run of the sequential WorkflowExecutor                   *)
(*            (workflow_executor.py) on a stored execution record.         *)
(*                                                                         *)
(* The workflow runtime (llama_index Workflow) is a library: a step's      *)
(* returned events are queued in FIFO order and handed one at a time to    *)
(* the step that accepts them, a StopEvent ends the run, an exception      *)
(* leaving a step ends the run with that exception, and a run whose queue  *)
(* drains without a StopEvent ends with the library's timeout error.       *)
(***************************************************************************)
EXTENDS Integers, Sequences, FiniteSets, TLC

\* ------------------------------------------------------------------ bounds
\* cap on _execute_node calls in one run (a cyclic graph dispatches forever)
MaxDispatch == 6

\* ----------------------------------------------------------------- helpers
None == "none"

Range(s) == {s[i] : i \in DOMAIN s}

Perms(S) ==
    {s \in [1..Cardinality(S) -> S] :
        \A i, j \in 1..Cardinality(S) : i # j => s[i] # s[j]}

RECURSIVE Flatten(_)
Flatten(ss) == IF ss = <<>> THEN <<>> ELSE Head(ss) \o Flatten(Tail(ss))

\* ---------------------------------------------------------- node registry
\* NodeTypeRegistry._node_types: the registered NodeType of a node type id,
\* with the keys of its required config_fields
NodeTypeRegistry ==
    ("webhook_trigger" :>
        [id |-> "webhook_trigger", category |-> "triggers", required |-> {"method"}]) @@
    ("http_request" :>
        [id |-> "http_request", category |-> "integrations", required |-> {"method"}])

\* the None a node type lookup returns
NoType == [id |-> None, category |-> None, required |-> {}]

\* NodeTypeRegistry.get_node_type
get_node_type(node_type_id) ==
    IF node_type_id \in DOMAIN NodeTypeRegistry
    THEN NodeTypeRegistry[node_type_id] ELSE NoType

\* node type ids a workflow's nodes may carry; "custom_x" is not registered
TypeIds == DOMAIN NodeTypeRegistry \cup {"custom_x"}

\* --------------------------------------------------------------- workflows
\* a connection as the executors read it: the ids of its two ends and the
\* output and input names, None when the connection names none
ConnIO(i, s, so, t, ti) ==
    [id |-> i, source_node_id |-> s, source_output |-> so,
     target_node_id |-> t, target_input |-> ti]

Conn(i, s, t) == ConnIO(i, s, None, t, None)

\* connection lists of the workflows explored; "X" is no node of any of them
Shapes ==
    { [ids |-> {}, connections |-> <<>>],
      [ids |-> {}, connections |-> <<Conn("c1", "X", "Y")>>],
      [ids |-> {"A"}, connections |-> <<>>],
      [ids |-> {"A", "B"}, connections |-> <<>>],
      [ids |-> {"A", "B"}, connections |-> <<Conn("c1", "A", "B")>>],
      [ids |-> {"A", "B", "C"},
       connections |-> <<ConnIO("c1", "A", "triggered", "B", "text"),
                         ConnIO("c2", "B", "status_code", "C", "data")>>],
      [ids |-> {"A", "B", "C", "D"},
       connections |-> <<Conn("c1", "A", "B"), Conn("c2", "A", "C"),
                         Conn("c3", "B", "D"), Conn("c4", "C", "D")>>],
      [ids |-> {"A", "B", "C", "D"},
       connections |-> <<Conn("c1", "A", "B"), Conn("c2", "A", "C"),
                         Conn("c3", "C", "D")>>],
      [ids |-> {"A", "B", "C"},
       connections |-> <<ConnIO("c1", "A", "url", "C", "text"),
                         ConnIO("c2", "B", "url", "C", "text")>>],
      [ids |-> {"A", "B"},
       connections |-> <<Conn("c1", "A", "B"), Conn("c2", "A", "B")>>],
      [ids |-> {"A", "B"},
       connections |-> <<Conn("c1", "A", "B"), Conn("c2", "B", "A")>>],
      [ids |-> {"A", "B"},
       connections |-> <<Conn("c1", "A", "B"), Conn("c2", "A", "X")>>],
      [ids |-> {"A", "B"},
       connections |-> <<Conn("c1", "X", "B"), Conn("c2", "A", "B")>>] }

\* the config keys a node may carry: the required one present or missing
Configs == {{"method"}, {}}

\* VisualWorkflowData: an ordered node list and a connection list
Workflow(sh, order, ty, cf) ==
    [nodes |-> [i \in DOMAIN order |->
                    [node_id |-> order[i], node_type_id |-> ty[order[i]],
                     config |-> cf[order[i]]]],
     connections |-> sh.connections]

NodeIdsOf(w) == {w.nodes[i].node_id : i \in DOMAIN w.nodes}


\* ------------------------------------------------- DynamicWorkflow: graph
\* DynamicWorkflow._build_execution_graph: source id -> targets, one entry per
\* connection in connection order; every node and every source id is a key
_build_execution_graph(w) ==
    [n \in NodeIdsOf(w) \cup {c.source_node_id : c \in Range(w.connections)} |->
        LET cs == SelectSeq(w.connections, LAMBDA c : c.source_node_id = n)
        IN  [i \in DOMAIN cs |-> cs[i].target_node_id]]

\* self.execution_graph.get(node_id, [])
graph_get(w, node_id) ==
    LET graph == _build_execution_graph(w)
    IN  IF node_id \in DOMAIN graph THEN graph[node_id] ELSE <<>>

\* DynamicWorkflow._find_trigger_nodes: nodes without incoming connection
\* whose registered type is of category "triggers", in node-list order
_find_trigger_nodes(w) ==
    LET incoming_connections == {c.target_node_id : c \in Range(w.connections)}
    IN  SelectSeq(w.nodes, LAMBDA node :
            /\ node.node_id \notin incoming_connections
            /\ get_node_type(node.node_type_id) # NoType
            /\ get_node_type(node.node_type_id).category = "triggers")

\* the None a node lookup returns
NoNode == [node_id |-> None, node_type_id |-> None, config |-> {}]

\* DynamicWorkflow._find_node_by_id: first node of the list with that id
_find_node_by_id(w, node_id) ==
    LET hits == SelectSeq(w.nodes, LAMBDA node : node.node_id = node_id)
    IN  IF hits = <<>> THEN NoNode ELSE Head(hits)

\* DynamicWorkflow._are_dependencies_satisfied
_are_dependencies_satisfied(w, node_id, results) ==
    \A c \in Range(w.connections) :
        c.target_node_id = node_id => c.source_node_id \in results

\* DynamicWorkflow._execute_node: raises ValueError for an unregistered type,
\* otherwise runs the (mock) handler of the type, which returns a result
_execute_node_ok(node) == get_node_type(node.node_type_id) # NoType

\* the keys of the dict the handler of a node type returns:
\* _execute_trigger_node for ids ending in "_trigger", _execute_http_request_node
ResultKeys(node_type_id) ==
    IF node_type_id = "webhook_trigger"
    THEN {"trigger_type", "trigger_name", "triggered", "trigger_time", "trigger_data"}
    ELSE IF node_type_id = "http_request"
    THEN {"url", "method", "headers", "body", "status_code", "response",
          "request_time"}
    ELSE {}

\* a value handed to a node: field k of the result of node n, or all of it
FieldOf(n, k) == [of |-> n, field |-> k]
WholeOf(n) == [of |-> n, field |-> None]

\* the loop of _gather_input_data over the incoming connections cs: a source
\* without a (truthy) stored result writes nothing, a later write to a key
\* replaces the earlier one
RECURSIVE GatherLoop(_, _, _, _)
GatherLoop(w, cs, results, input_data) ==
    IF cs = <<>> THEN input_data
    ELSE
      LET connection == Head(cs)
          source == _find_node_by_id(w, connection.source_node_id)
          source_result == ResultKeys(source.node_type_id)
          source_output == IF connection.source_output = None THEN "result"
                           ELSE connection.source_output
          target_input == IF connection.target_input = None THEN "input"
                          ELSE connection.target_input
          value == IF source_output \in source_result
                   THEN FieldOf(connection.source_node_id, source_output)
                   ELSE WholeOf(connection.source_node_id)
      IN  IF connection.source_node_id \in results /\ source_result # {}
          THEN GatherLoop(w, Tail(cs), results,
                          (target_input :> value) @@ input_data)
          ELSE GatherLoop(w, Tail(cs), results, input_data)

\* DynamicWorkflow._gather_input_data
_gather_input_data(w, node_id, results) ==
    GatherLoop(w, SelectSeq(w.connections, LAMBDA c : c.target_node_id = node_id),
               results, <<>>)

\* --------------------------------------------------------------- validation
Err(k, names) == [kind |-> k, names |-> names]

\* _validate_visual_workflow, the config check of one node: one error per
\* required field whose key the node's config lacks
MissingFields(node) ==
    LET missing == get_node_type(node.node_type_id).required \ node.config
    IN  IF missing = {} THEN <<>>
        ELSE <<Err("missing_field", missing \cup {node.node_id})>>

\* the per-node part with the type check skipped for a duplicate node id
NodeErrorsElif(w, i) ==
    LET node == w.nodes[i]
        seen == {w.nodes[j].node_id : j \in 1..(i - 1)}
    IN  IF node.node_id \in seen
        THEN <<Err("duplicate_node", {node.node_id})>>
        ELSE IF get_node_type(node.node_type_id) = NoType
        THEN <<Err("unknown_type", {node.node_type_id, node.node_id})>>
        ELSE MissingFields(node)

\* _validate_visual_workflow, the per-node part of the loop; names holds the
\* identifiers the message text contains
NodeErrors(w, i) ==
    LET node == w.nodes[i]
        seen == {w.nodes[j].node_id : j \in 1..(i - 1)}
    IN  (IF node.node_id \in seen
         THEN <<Err("duplicate_node", {node.node_id})>> ELSE <<>>)
        \o
        (IF get_node_type(node.node_type_id) = NoType
         THEN <<Err("unknown_type", {node.node_type_id, node.node_id})>>
         ELSE MissingFields(node))

\* _validate_visual_workflow, the per-connection part of the loop
ConnErrors(w, j) ==
    LET connection == w.connections[j]
    IN  (IF connection.source_node_id \notin NodeIdsOf(w)
         THEN <<Err("missing_source", {connection.source_node_id})>> ELSE <<>>)
        \o
        (IF connection.target_node_id \notin NodeIdsOf(w)
         THEN <<Err("missing_target", {connection.target_node_id})>> ELSE <<>>)

\* _validate_visual_workflow
_validate_visual_workflow(w) ==
    IF w.nodes = <<>>
    THEN [valid |-> FALSE, errors |-> <<Err("no_nodes", {})>>, warnings |-> <<>>]
    ELSE
      LET errors == Flatten([i \in DOMAIN w.nodes |-> NodeErrors(w, i)])
                    \o Flatten([j \in DOMAIN w.connections |-> ConnErrors(w, j)])
          connected_nodes ==
              {c.source_node_id : c \in Range(w.connections)} \cup
              {c.target_node_id : c \in Range(w.connections)}
          isolated_nodes == NodeIdsOf(w) \ connected_nodes
          warnings == IF Cardinality(isolated_nodes) > 1
                      THEN <<Err("isolated_nodes", isolated_nodes)>> ELSE <<>>
      IN  [valid |-> (Len(errors) = 0), errors |-> errors, warnings |-> warnings]

NotValidated == [valid |-> FALSE, errors |-> <<>>, warnings |-> <<>>]

\* ------------------------------------------------------------------- state
VARIABLES
    wf,               \* the VisualWorkflow handed to the endpoints
    validation,       \* result of _validate_visual_workflow at creation
    pc,               \* position of VisualWorkflowExecutor.execute_workflow
    status,           \* WorkflowExecutionContext.status
    node_results,     \* keys of WorkflowExecutionContext.node_results
    execution_log,    \* WorkflowExecutionContext.execution_log
    events,           \* NodeExecutionEvents returned by steps, not yet handled
    invocations,      \* the _execute_node calls of the run, in order
    steps,            \* status of each StepProgress in the enhanced context
    tracking,         \* counters, lists and end time of the enhanced context
    active_executions,\* the executor's active_executions (its run table)
    tasks,            \* positions of the execute_workflow coroutines in flight
    now,              \* datetime.utcnow() as seen by the controller
    response,         \* outcome of the last call a client made
    snapshot,         \* the dict the last status query handed to its caller
    _node_types,      \* NodeTypeRegistry._node_types, in insertion order
    db                \* the workflows and workflow_executions collections

dynvars == <<wf, validation, pc, status, node_results, execution_log, events,
             invocations, steps, tracking>>
ctlvars == <<active_executions, tasks, now, response, snapshot>>
auxvars == <<_node_types, db>>
vars == <<wf, validation, pc, status, node_results, execution_log, events,
          invocations, steps, tracking, active_executions, tasks, now, response,
          snapshot, _node_types, db>>

\* WorkflowExecutionContext.__init__ and initialize_steps: the counters, the
\* lists and the end time of a context of total_steps nodes; fail_calls keeps
\* the context as each fail_step call found and left it
Tracking(total_steps) ==
    [total_steps |-> total_steps, completed_step_count |-> 0,
     overall_progress |-> 0, current_step |-> None,
     completed_steps |-> <<>>, failed_steps |-> <<>>, end_time |-> None,
     fail_calls |-> <<>>]

NoTracking == Tracking(0)

NoResponse ==
    [op |-> None, execution_id |-> None, result |-> None, returned |-> None,
     was |-> None]

\* no status query has returned yet
NoSnapshot == [given |-> FALSE, obj |-> 0, returned |-> <<>>, seen |-> <<>>]

\* a dict entry: key and value
Item(k, v) == [key |-> k, value |-> v]

\* NodeTypeRegistry.__init__: the default types, each under its own id
DefaultNodeTypes ==
    <<Item("webhook_trigger", NodeTypeRegistry["webhook_trigger"]),
      Item("http_request", NodeTypeRegistry["http_request"])>>

\* the collections before any document is inserted; uuids counts the
\* uuid.uuid4() calls made so far
EmptyDb == [workflows |-> <<>>, executions |-> <<>>, uuids |-> 0]

DbIdle == db = EmptyDb

CtlIdle ==
    /\ active_executions = <<>>
    /\ tasks = <<>>
    /\ now = 0
    /\ response = NoResponse
    /\ snapshot = NoSnapshot
    /\ _node_types = DefaultNodeTypes

LogEntry(n, st) == [node_id |-> n, status |-> st]

\* one _execute_node call: the node, the results recorded when it was called,
\* the input data it was called with, and whether the handler returned
Invocation(n, results, input_data, ok) ==
    [node_id |-> n, results |-> results, input_data |-> input_data, ok |-> ok]

Init ==
    /\ \E sh \in Shapes : \E order \in Perms(sh.ids) :
         \E ty \in [sh.ids -> TypeIds] : \E cf \in [sh.ids -> Configs] :
            wf = Workflow(sh, order, ty, cf)
    /\ validation = NotValidated
    /\ pc = "new"
    /\ status = None
    /\ node_results = {}
    /\ execution_log = <<>>
    /\ events = <<>>
    /\ invocations = <<>>
    /\ steps = <<>>
    /\ tracking = NoTracking
    /\ CtlIdle
    /\ DbIdle

\* --------------------------------------------------------------- operations
\* create_visual_workflow: validates, discards the result, stores the workflow
create_visual_workflow ==
    /\ pc = "new"
    /\ validation' = _validate_visual_workflow(wf)
    /\ pc' = "stored"
    /\ UNCHANGED <<wf, status, node_results, execution_log, events, invocations>>
    /\ UNCHANGED <<steps, tracking, ctlvars>>
    /\ UNCHANGED auxvars

\* VisualWorkflowExecutor.execute_workflow up to workflow.run: constructs the
\* DynamicWorkflow, whose context starts in status "running"
execute_workflow_start ==
    /\ pc = "stored"
    /\ status' = "running"
    /\ pc' = "created"
    /\ UNCHANGED <<wf, validation, node_results, execution_log, events, invocations>>
    /\ UNCHANGED <<steps, tracking, ctlvars>>
    /\ UNCHANGED auxvars

\* DynamicWorkflow.process_start
process_start ==
    /\ pc = "created"
    /\ LET trigger_nodes == _find_trigger_nodes(wf)
           first == IF trigger_nodes # <<>> THEN Head(trigger_nodes)
                    ELSE Head(wf.nodes)
       IN  IF wf.nodes = <<>>
           THEN /\ status' = "completed"
                /\ pc' = "stopped"
                /\ UNCHANGED <<events, invocations>>
           ELSE /\ invocations' = Append(invocations,
                        Invocation(first.node_id, node_results, <<>>,
                                   _execute_node_ok(first)))
                /\ IF _execute_node_ok(first)
                   THEN /\ events' = Append(events, first.node_id)
                        /\ pc' = "running"
                   ELSE /\ events' = events
                        /\ pc' = "raised"
                /\ UNCHANGED status
    /\ UNCHANGED <<wf, validation, node_results, execution_log>>
    /\ UNCHANGED <<steps, tracking, ctlvars>>
    /\ UNCHANGED auxvars

\* the dependents loop of process_node_execution: what happens to one dependent
Outcome(w, dependent_id, results) ==
    LET dependent_node == _find_node_by_id(w, dependent_id)
    IN  IF dependent_node = NoNode THEN "absent"
        ELSE IF ~_are_dependencies_satisfied(w, dependent_id, results) THEN "waiting"
        ELSE IF _execute_node_ok(dependent_node) THEN "executed"
        ELSE "error"

\* DynamicWorkflow.process_node_execution, for the oldest queued event
process_node_execution ==
    /\ pc = "running"
    /\ events # <<>>
    /\ LET node_id == Head(events)
           results == node_results \cup {node_id}
           dependent_node_ids == graph_get(wf, node_id)
           called == SelectSeq(dependent_node_ids, LAMBDA d :
                        Outcome(wf, d, results) \in {"executed", "error"})
           executed == SelectSeq(dependent_node_ids, LAMBDA d :
                        Outcome(wf, d, results) = "executed")
           failed == SelectSeq(dependent_node_ids, LAMBDA d :
                        Outcome(wf, d, results) = "error")
       IN  /\ Len(invocations) + Len(called) <= MaxDispatch
           /\ node_results' = results
           /\ IF dependent_node_ids = <<>>
              THEN /\ execution_log' = Append(execution_log, LogEntry(node_id, "completed"))
                   /\ status' = "completed"
                   /\ pc' = "stopped"
                   /\ events' = Tail(events)
                   /\ UNCHANGED invocations
              ELSE /\ execution_log' =
                        Append(execution_log, LogEntry(node_id, "completed"))
                        \o [i \in DOMAIN failed |-> LogEntry(failed[i], "error")]
                   /\ invocations' = invocations \o
                        [i \in DOMAIN called |->
                            Invocation(called[i], results,
                                       _gather_input_data(wf, called[i], results),
                                       Outcome(wf, called[i], results) = "executed")]
                   /\ events' = Tail(events) \o executed
                   /\ UNCHANGED <<status, pc>>
    /\ UNCHANGED <<wf, validation>>
    /\ UNCHANGED <<steps, tracking, ctlvars>>
    /\ UNCHANGED auxvars

\* the run ends with the runtime's timeout error: no event is queued and no
\* step returned a StopEvent
workflow_timeout ==
    /\ pc = "running"
    /\ events = <<>>
    /\ pc' = "raised"
    /\ UNCHANGED <<wf, validation, status, node_results, execution_log, events,
                   invocations>>
    /\ UNCHANGED <<steps, tracking, ctlvars>>
    /\ UNCHANGED auxvars

\* VisualWorkflowExecutor.execute_workflow after workflow.run returned
execute_workflow_return ==
    /\ pc = "stopped"
    /\ status' = "completed"
    /\ pc' = "done"
    /\ UNCHANGED <<wf, validation, node_results, execution_log, events, invocations>>
    /\ UNCHANGED <<steps, tracking, ctlvars>>
    /\ UNCHANGED auxvars

\* VisualWorkflowExecutor.execute_workflow, the except branch
execute_workflow_except ==
    /\ pc = "raised"
    /\ status' = "failed"
    /\ execution_log' = Append(execution_log, LogEntry("workflow", "error"))
    /\ pc' = "done"
    /\ UNCHANGED <<wf, validation, node_results, events, invocations>>
    /\ UNCHANGED <<steps, tracking, ctlvars>>
    /\ UNCHANGED auxvars

Next ==
    \/ create_visual_workflow
    \/ execute_workflow_start
    \/ process_start
    \/ process_node_execution
    \/ workflow_timeout
    \/ execute_workflow_return
    \/ execute_workflow_except

Spec == Init /\ [][Next]_vars

\* ------------------------------------- EnhancedVisualWorkflowExecutor: runs
\* cap on execute_workflow calls and on the clock readings told apart
MaxTasks == 2
MaxClock == 1

WorkflowIds == {"w1", "w2"}

\* f"exec_{workflow_id}_{datetime.utcnow().timestamp()}"
ExecutionId(workflow_id, t) == <<workflow_id, t>>

\* the execution ids a caller may pass to a control endpoint
ExecutionIds == {ExecutionId(w, t) : w \in WorkflowIds, t \in 0..MaxClock}

\* active_executions.get(execution_id)["status"], None without an entry
StatusOf(execution_id) ==
    IF execution_id \in DOMAIN active_executions
    THEN active_executions[execution_id].status ELSE None

\* a control call as its caller sees it: the endpoint's answer (result), what
\* the executor's method returned to the endpoint, and the run's status before
Response(op, execution_id, result, returned) ==
    [op |-> op, execution_id |-> execution_id, result |-> result,
     returned |-> returned, was |-> StatusOf(execution_id)]

InitCtl ==
    /\ wf = [nodes |-> <<>>, connections |-> <<>>]
    /\ validation = NotValidated
    /\ pc = "new"
    /\ status = None
    /\ node_results = {}
    /\ execution_log = <<>>
    /\ events = <<>>
    /\ invocations = <<>>
    /\ steps = <<>>
    /\ tracking = NoTracking
    /\ CtlIdle
    /\ DbIdle

\* a write of the run's task or of cancel_execution to a dict of the run
\* table: the holder of a returned dict that is this very dict sees the write
WriteThrough(entry) ==
    IF snapshot.given /\ snapshot.obj = entry.obj
    THEN [snapshot EXCEPT !.seen = entry] ELSE snapshot

\* EnhancedVisualWorkflowExecutor.get_execution_status: active_executions.get
\* hands out the table's own dict of the id (obj is its identity), and a new
\* {"status": "not_found"} dict (identity 0) when the id has no entry
get_execution_status(execution_id) ==
    IF execution_id \in DOMAIN active_executions
    THEN [given |-> TRUE, obj |-> active_executions[execution_id].obj,
          returned |-> active_executions[execution_id],
          seen |-> active_executions[execution_id]]
    ELSE [given |-> TRUE, obj |-> 0,
          returned |-> [status |-> "not_found"],
          seen |-> [status |-> "not_found"]]

\* time passes between two readings of datetime.utcnow()
Tick ==
    /\ now < MaxClock
    /\ now' = now + 1
    /\ UNCHANGED <<active_executions, tasks, response, snapshot>>
    /\ UNCHANGED dynvars
    /\ UNCHANGED auxvars

\* EnhancedVisualWorkflowExecutor.execute_workflow up to asyncio.sleep: the
\* entry is stored under the id made of workflow id and clock reading
execute_workflow_begin(workflow_id) ==
    /\ Len(tasks) < MaxTasks
    /\ LET execution_id == ExecutionId(workflow_id, now)
       IN  /\ active_executions' =
                (execution_id :> [workflow_id |-> workflow_id,
                                  status |-> "running", progress |-> 0,
                                  obj |-> Len(tasks) + 1])
                @@ active_executions
           /\ tasks' = Append(tasks, [execution_id |-> execution_id, pc |-> "sleeping"])
    /\ UNCHANGED <<now, response, snapshot>>
    /\ UNCHANGED dynvars
    /\ UNCHANGED auxvars

\* EnhancedVisualWorkflowExecutor.execute_workflow after asyncio.sleep: the
\* entry is updated to completed whatever its status is by then
execute_workflow_finish(t) ==
    /\ tasks[t].pc = "sleeping"
    /\ LET execution_id == tasks[t].execution_id
           updated == [active_executions[execution_id] EXCEPT
                          !.status = "completed", !.progress = 100]
       IN  /\ active_executions' =
                [active_executions EXCEPT ![execution_id] = updated]
           /\ snapshot' = WriteThrough(updated)
    /\ tasks' = [tasks EXCEPT ![t].pc = "returned"]
    /\ UNCHANGED <<now, response>>
    /\ UNCHANGED dynvars
    /\ UNCHANGED auxvars

\* cancel_execution without its membership test: the entry is made if absent
CancelUnguarded(execution_id) ==
    /\ active_executions' =
            IF execution_id \in DOMAIN active_executions
            THEN [active_executions EXCEPT ![execution_id].status = "cancelled"]
            ELSE (execution_id :> [workflow_id |-> None, status |-> "cancelled",
                                   progress |-> 0, obj |-> 0]) @@ active_executions
    /\ response' = Response("cancel", execution_id, "200", "cancelled")
    /\ UNCHANGED <<tasks, now, snapshot>>
    /\ UNCHANGED dynvars
    /\ UNCHANGED auxvars

\* cancel_workflow_execution calling cancel_execution: an entry of any status
\* is set to cancelled and the "Execution cancelled" dict returned, without
\* entry the "Execution not found" dict is returned; both dicts are truthy, so
\* the endpoint answers 200 "cancelled" either way
cancel_workflow_execution(execution_id) ==
    /\ active_executions' =
            IF execution_id \in DOMAIN active_executions
            THEN [active_executions EXCEPT ![execution_id].status = "cancelled"]
            ELSE active_executions
    /\ snapshot' =
            IF execution_id \in DOMAIN active_executions
            THEN WriteThrough([active_executions[execution_id] EXCEPT
                                  !.status = "cancelled"])
            ELSE snapshot
    /\ response' = Response("cancel", execution_id, "200",
                            IF execution_id \in DOMAIN active_executions
                            THEN "cancelled" ELSE "not_found")
    /\ UNCHANGED <<tasks, now>>
    /\ UNCHANGED dynvars
    /\ UNCHANGED auxvars

\* pause_workflow_execution: the executor has no pause_execution, the
\* AttributeError is caught by the endpoint and answered with 500
pause_workflow_execution(execution_id) ==
    /\ response' = Response("pause", execution_id, "500", "AttributeError")
    /\ UNCHANGED <<active_executions, tasks, now, snapshot>>
    /\ UNCHANGED dynvars
    /\ UNCHANGED auxvars

\* resume_workflow_execution: the executor has no resume_execution either
resume_workflow_execution(execution_id) ==
    /\ response' = Response("resume", execution_id, "500", "AttributeError")
    /\ UNCHANGED <<active_executions, tasks, now, snapshot>>
    /\ UNCHANGED dynvars
    /\ UNCHANGED auxvars

\* get_workflow_status with an execution id, awaiting get_execution_status:
\* the entry of the id, or the {"status": "not_found"} dict, answered as it is
get_workflow_status(execution_id) ==
    /\ response' = Response("status", execution_id, "200",
                            IF execution_id \in DOMAIN active_executions
                            THEN StatusOf(execution_id) ELSE "not_found")
    /\ snapshot' = get_execution_status(execution_id)
    /\ UNCHANGED <<active_executions, tasks, now>>
    /\ UNCHANGED dynvars
    /\ UNCHANGED auxvars

NextCtl ==
    \/ \E t \in DOMAIN tasks : execute_workflow_finish(t)
    \/ \E e \in ExecutionIds : cancel_workflow_execution(e)
    \/ \E e \in ExecutionIds : pause_workflow_execution(e)
    \/ \E e \in ExecutionIds : resume_workflow_execution(e)
    \/ \E e \in ExecutionIds : get_workflow_status(e)
    \/ \E w \in WorkflowIds : execute_workflow_begin(w)
    \/ Tick

SpecCtl == InitCtl /\ [][NextCtl]_vars

Terminal == {"completed", "failed", "cancelled"}

\* ------------------------------------------- validation of arbitrary input
\* SpecVal: _validate_visual_workflow applied by create_visual_workflow to
\* node lists that may repeat a node id and connection lists that may name
\* absent nodes
\* cap on the length of the node list
MaxNodes == 2

ValNodes == [node_id : {"A", "B"}, node_type_id : TypeIds, config : Configs]

ValConnections ==
    { <<>>,
      <<Conn("c1", "A", "B")>>,
      <<Conn("c1", "A", "X")>>,
      <<Conn("c1", "X", "B"), Conn("c2", "A", "B")>>,
      <<Conn("c1", "X", "Y"), Conn("c2", "B", "A")>> }

InitVal ==
    /\ \E k \in 0..MaxNodes : \E nodes \in [1..k -> ValNodes] :
         \E connections \in ValConnections :
            wf = [nodes |-> nodes, connections |-> connections]
    /\ validation = NotValidated
    /\ pc = "new"
    /\ status = None
    /\ node_results = {}
    /\ execution_log = <<>>
    /\ events = <<>>
    /\ invocations = <<>>
    /\ steps = <<>>
    /\ tracking = NoTracking
    /\ CtlIdle
    /\ DbIdle

NextVal == create_visual_workflow

SpecVal == InitVal /\ [][NextVal]_vars

\* ------------------------------- enhanced context, EmailAutomationWorkflow
\* SpecEmail: one run of EmailAutomationWorkflow over the enhanced
\* WorkflowExecutionContext.  The class reads the constructor's workflow as
\* self.visual_workflow and calls _find_node_by_id, _are_dependencies_satisfied,
\* _gather_input_data and _execute_generic_node, which its text does not
\* define; they are taken to be those of DynamicWorkflow, of which the class
\* is a copy.

\* the enhanced context as a value: overall status, step statuses, stored
\* results, execution log, and the counters, lists and end time
Ctx(st, sp, results, log, tr) ==
    [status |-> st, steps |-> sp, node_results |-> results, execution_log |-> log,
     tracking |-> tr]

\* WorkflowExecutionContext.initialize_steps: a StepProgress per node, waiting
initialize_steps(w) == [n \in NodeIdsOf(w) |-> "waiting"]

\* WorkflowExecutionContext._update_progress: int((count / total) * 100),
\* which is the floor of 100 * count / total for the node counts explored
_update_progress(ctx) ==
    IF ctx.tracking.total_steps > 0
    THEN [ctx EXCEPT !.tracking.overall_progress =
            (ctx.tracking.completed_step_count * 100) \div ctx.tracking.total_steps]
    ELSE ctx

\* WorkflowExecutionContext.start_execution
start_execution(ctx) ==
    [ctx EXCEPT !.status = "running",
                !.execution_log = Append(@, LogEntry("workflow", "running"))]

\* WorkflowExecutionContext.complete_execution
complete_execution(ctx) ==
    [ctx EXCEPT !.status = "completed",
                !.tracking.end_time = "set",
                !.tracking.overall_progress = 100,
                !.execution_log = Append(@, LogEntry("workflow", "completed"))]

\* WorkflowExecutionContext.fail_execution
fail_execution(ctx) ==
    [ctx EXCEPT !.status = "failed",
                !.tracking.end_time = "set",
                !.execution_log = Append(@, LogEntry("workflow", "failed"))]

\* WorkflowExecutionContext.start_step with StepProgress.start
start_step(ctx, node_id) ==
    IF node_id \in DOMAIN ctx.steps
    THEN LET started == _update_progress(
                [ctx EXCEPT !.tracking.current_step = node_id,
                            !.steps[node_id] = "running"])
         IN  [started EXCEPT
                !.execution_log = Append(@, LogEntry(node_id, "running"))]
    ELSE ctx

\* WorkflowExecutionContext.complete_step with StepProgress.complete
complete_step(ctx, node_id) ==
    IF node_id \in DOMAIN ctx.steps
    THEN LET completed == _update_progress(
                [ctx EXCEPT !.steps[node_id] = "completed",
                            !.node_results = @ \cup {node_id},
                            !.tracking.completed_steps = Append(@, node_id),
                            !.tracking.completed_step_count = @ + 1])
         IN  [completed EXCEPT
                !.execution_log = Append(@, LogEntry(node_id, "completed"))]
    ELSE ctx

\* a context without the record of the fail_step calls
Strip(ctx) == [ctx EXCEPT !.tracking.fail_calls = <<>>]

\* the context after a call, with the call's two ends recorded
Recorded(node_id, before, after) ==
    [after EXCEPT !.tracking.fail_calls =
        Append(@, [node_id |-> node_id,
                   before |-> Strip(before), after |-> Strip(after)])]

\* a fail_step that fails the run as well
FailStepFailsRun(ctx, node_id) ==
    Recorded(node_id, ctx,
             [ctx EXCEPT !.steps[node_id] = "failed", !.status = "failed",
                         !.tracking.failed_steps = Append(@, node_id)])

\* WorkflowExecutionContext.fail_step with StepProgress.fail
fail_step(ctx, node_id) ==
    IF node_id \in DOMAIN ctx.steps
    THEN LET failed == _update_progress(
                [ctx EXCEPT !.steps[node_id] = "failed",
                            !.tracking.failed_steps = Append(@, node_id)])
         IN  Recorded(node_id, ctx,
                [failed EXCEPT
                    !.execution_log = Append(@, LogEntry(node_id, "failed"))])
    ELSE ctx

\* node_type_id.endswith("_trigger")
EndsWithTrigger(node_type_id) ==
    node_type_id \in {"webhook_trigger", "schedule_trigger"}

\* EmailAutomationWorkflow._find_trigger_nodes
email_find_trigger_nodes(w) ==
    LET incoming_connections == {c.target_node_id : c \in Range(w.connections)}
    IN  SelectSeq(w.nodes, LAMBDA node :
            /\ node.node_id \notin incoming_connections
            /\ get_node_type(node.node_type_id) # NoType
            /\ \/ get_node_type(node.node_type_id).category = "triggers"
               \/ EndsWithTrigger(node.node_type_id))

\* the NodeExecutionEvent of the enhanced executor
NodeEvent(n, st) == [node_id |-> n, status |-> st]

\* the dependents loop of EmailAutomationWorkflow.process_node_execution over
\* the dependents ds: acc holds the context and the events collected so far
RECURSIVE email_dependents(_, _, _)
email_dependents(w, ds, acc) ==
    IF ds = <<>> THEN acc
    ELSE
      LET dependent_id == Head(ds)
          dependent_node == _find_node_by_id(w, dependent_id)
          started == start_step(acc.ctx, dependent_id)
      IN  IF dependent_node = NoNode
             \/ ~_are_dependencies_satisfied(w, dependent_id, acc.ctx.node_results)
          THEN email_dependents(w, Tail(ds), acc)
          ELSE IF _execute_node_ok(dependent_node)
          THEN email_dependents(w, Tail(ds),
                  [ctx |-> complete_step(started, dependent_id),
                   dependent_events |->
                       Append(acc.dependent_events, NodeEvent(dependent_id, "completed"))])
          ELSE email_dependents(w, Tail(ds),
                  [ctx |-> fail_step(started, dependent_id),
                   dependent_events |->
                       Append(acc.dependent_events, NodeEvent(dependent_id, "failed"))])

\* the context held in the state
TheCtx == Ctx(status, steps, node_results, execution_log, tracking)

\* the context ctx written back to the state
SetCtx(ctx) ==
    /\ status' = ctx.status
    /\ steps' = ctx.steps
    /\ node_results' = ctx.node_results
    /\ execution_log' = ctx.execution_log
    /\ tracking' = ctx.tracking

\* the state after EmailAutomationWorkflow.__init__: a pending context with a
\* waiting step per node
InitEmail ==
    /\ \E sh \in Shapes : \E order \in Perms(sh.ids) : \E ty \in [sh.ids -> TypeIds] :
            wf = Workflow(sh, order, ty, [n \in sh.ids |-> {"method"}])
    /\ validation = NotValidated
    /\ pc = "created"
    /\ status = "pending"
    /\ node_results = {}
    /\ execution_log = <<>>
    /\ events = <<>>
    /\ invocations = <<>>
    /\ steps = initialize_steps(wf)
    /\ tracking = Tracking(Len(wf.nodes))
    /\ CtlIdle
    /\ DbIdle

\* EmailAutomationWorkflow.process_start
email_process_start ==
    /\ pc = "created"
    /\ LET trigger_nodes == email_find_trigger_nodes(wf)
           first_trigger == Head(trigger_nodes).node_id
           running == start_execution(TheCtx)
       IN  IF trigger_nodes # <<>>
           THEN /\ SetCtx(complete_step(start_step(running, first_trigger),
                                        first_trigger))
                /\ events' = Append(events, NodeEvent(first_trigger, "completed"))
                /\ pc' = "running"
           ELSE /\ SetCtx(fail_execution(running))
                /\ pc' = "stopped"
                /\ UNCHANGED events
    /\ UNCHANGED <<wf, validation, invocations>>
    /\ UNCHANGED ctlvars
    /\ UNCHANGED auxvars

\* EmailAutomationWorkflow.process_node_execution, for the oldest queued event
email_process_node_execution ==
    /\ pc = "running"
    /\ events # <<>>
    /\ LET ev == Head(events)
           dependent_node_ids == graph_get(wf, ev.node_id)
           done == email_dependents(wf, dependent_node_ids,
                                    [ctx |-> TheCtx, dependent_events |-> <<>>])
       IN  IF ev.status = "failed"
           THEN /\ SetCtx(fail_execution(TheCtx))
                /\ pc' = "stopped"
                /\ events' = Tail(events)
           ELSE IF dependent_node_ids = <<>>
           THEN /\ SetCtx(complete_execution(TheCtx))
                /\ pc' = "stopped"
                /\ events' = Tail(events)
           ELSE /\ SetCtx(done.ctx)
                /\ events' = Tail(events) \o done.dependent_events
                /\ UNCHANGED pc
    /\ UNCHANGED <<wf, validation, invocations>>
    /\ UNCHANGED ctlvars
    /\ UNCHANGED auxvars

NextEmail ==
    \/ email_process_start
    \/ email_process_node_execution
    \/ workflow_timeout

SpecEmail == InitEmail /\ [][NextEmail]_vars

\* ------------------------------------------ VisualWorkflowExecutor: runs
\* SpecList: VisualWorkflowExecutor.active_executions, the contexts of the
\* execute_workflow coroutines in flight, and list_active_executions.  What
\* workflow.run does to a context is what Spec shows of one run: a step sets
\* the status to completed and stops the run, or the run raises.
\* cap on execute_workflow calls
MaxRuns == 3

\* str(uuid.uuid4()) of the n-th DynamicWorkflow constructed
Uuid(n) == <<"uuid", n>>

InitList == InitCtl

\* VisualWorkflowExecutor.execute_workflow up to workflow.run: the context of
\* the new DynamicWorkflow, status "running", is stored under its execution id
visual_execute_begin(workflow_id) ==
    /\ Len(tasks) < MaxRuns
    /\ LET execution_id == Uuid(Len(tasks) + 1)
       IN  /\ active_executions' =
                (execution_id :> [workflow_id |-> workflow_id, status |-> "running"])
                @@ active_executions
           /\ tasks' = Append(tasks, [execution_id |-> execution_id, pc |-> "running"])
    /\ UNCHANGED <<now, response, snapshot>>
    /\ UNCHANGED dynvars
    /\ UNCHANGED auxvars

\* workflow.run ends with a StopEvent: the step that returns it has set the
\* context's status to completed
visual_run_stops(t) ==
    /\ tasks[t].pc = "running"
    /\ active_executions' =
            [active_executions EXCEPT ![tasks[t].execution_id].status = "completed"]
    /\ tasks' = [tasks EXCEPT ![t].pc = "stopped"]
    /\ UNCHANGED <<now, response, snapshot>>
    /\ UNCHANGED dynvars
    /\ UNCHANGED auxvars

\* workflow.run raises: a handler's exception left process_start, or the
\* runtime's timeout
visual_run_raises(t) ==
    /\ tasks[t].pc = "running"
    /\ tasks' = [tasks EXCEPT ![t].pc = "raised"]
    /\ UNCHANGED <<active_executions, now, response, snapshot>>
    /\ UNCHANGED dynvars
    /\ UNCHANGED auxvars

\* VisualWorkflowExecutor.execute_workflow after workflow.run returned
visual_execute_return(t) ==
    /\ tasks[t].pc = "stopped"
    /\ active_executions' =
            [active_executions EXCEPT ![tasks[t].execution_id].status = "completed"]
    /\ tasks' = [tasks EXCEPT ![t].pc = "done"]
    /\ UNCHANGED <<now, response, snapshot>>
    /\ UNCHANGED dynvars
    /\ UNCHANGED auxvars

\* VisualWorkflowExecutor.execute_workflow, the except branch
visual_execute_except(t) ==
    /\ tasks[t].pc = "raised"
    /\ active_executions' =
            [active_executions EXCEPT ![tasks[t].execution_id].status = "failed"]
    /\ tasks' = [tasks EXCEPT ![t].pc = "done"]
    /\ UNCHANGED <<now, response, snapshot>>
    /\ UNCHANGED dynvars
    /\ UNCHANGED auxvars

\* list_active_executions with no filter at all: every context is listed
ListEveryContext == DOMAIN active_executions

\* the filter of list_active_executions: the ids of the contexts a summary is
\* returned for
ListedContexts ==
    {e \in DOMAIN active_executions : active_executions[e].status = "running"}

\* VisualWorkflowExecutor.list_active_executions
list_active_executions ==
    /\ response' = [op |-> "list", execution_id |-> None, result |-> "200",
                    returned |-> ListedContexts, was |-> None]
    /\ UNCHANGED <<active_executions, tasks, now, snapshot>>
    /\ UNCHANGED dynvars
    /\ UNCHANGED auxvars

NextList ==
    \/ \E w \in WorkflowIds : visual_execute_begin(w)
    \/ \E t \in DOMAIN tasks : visual_run_stops(t)
    \/ \E t \in DOMAIN tasks : visual_run_raises(t)
    \/ \E t \in DOMAIN tasks : visual_execute_return(t)
    \/ \E t \in DOMAIN tasks : visual_execute_except(t)
    \/ list_active_executions

SpecList == InitList /\ [][NextList]_vars

\* --------------------------------------------- NodeTypeRegistry: mutation
\* SpecReg: the registry's dict under register_node_type, get_node_type and
\* get_node_types_by_category; the response of a call holds the call's
\* argument in its execution_id field
\* the NodeType definitions a caller may register
NodeTypeDefs ==
    [id : TypeIds, category : {"triggers", "integrations"},
     required : {{}, {"method"}}]

\* the position of key k in the dict d, 0 when d has no such key
KeyIndex(d, k) ==
    IF \E i \in DOMAIN d : d[i].key = k
    THEN CHOOSE i \in DOMAIN d : d[i].key = k ELSE 0

\* d[k] = v of a dict: the value of an existing key is replaced in its
\* place, a new key is added at the end
DictSet(d, k, v) ==
    IF KeyIndex(d, k) # 0 THEN [d EXCEPT ![KeyIndex(d, k)].value = v]
    ELSE Append(d, Item(k, v))

\* self._node_types.get(node_type_id)
DictGet(d, k) == IF KeyIndex(d, k) # 0 THEN d[KeyIndex(d, k)].value ELSE NoType

\* the registry's list of the types of one category, in dict order
TypesByCategory(d, category_id) ==
    LET hits == SelectSeq(d, LAMBDA item : item.value.category = category_id)
    IN  [i \in DOMAIN hits |-> hits[i].value]

InitReg == InitCtl

\* a registration that adds an entry and leaves an earlier one in place
RegisterAppend(node_type) ==
    /\ _node_types' = Append(_node_types, Item(node_type.id, node_type))
    /\ response' = [op |-> "register", execution_id |-> node_type,
                    result |-> None, returned |-> None, was |-> None]
    /\ UNCHANGED <<active_executions, tasks, now, snapshot, db>>
    /\ UNCHANGED dynvars

\* NodeTypeRegistry.register_node_type
register_node_type(node_type) ==
    /\ _node_types' = DictSet(_node_types, node_type.id, node_type)
    /\ response' = [op |-> "register", execution_id |-> node_type,
                    result |-> None, returned |-> None, was |-> None]
    /\ UNCHANGED <<active_executions, tasks, now, snapshot, db>>
    /\ UNCHANGED dynvars

\* NodeTypeRegistry.get_node_type called by a client
call_get_node_type(node_type_id) ==
    /\ response' = [op |-> "get", execution_id |-> node_type_id,
                    result |-> None, returned |-> DictGet(_node_types, node_type_id),
                    was |-> None]
    /\ UNCHANGED <<active_executions, tasks, now, snapshot, _node_types, db>>
    /\ UNCHANGED dynvars

\* NodeTypeRegistry.get_node_types_by_category
get_node_types_by_category(category_id) ==
    /\ response' = [op |-> "by_category", execution_id |-> category_id,
                    result |-> None,
                    returned |-> TypesByCategory(_node_types, category_id),
                    was |-> None]
    /\ UNCHANGED <<active_executions, tasks, now, snapshot, _node_types, db>>
    /\ UNCHANGED dynvars

\* the category ids a caller may ask for; "logic" has no type here
CategoryIds == {"triggers", "integrations", "logic"}

NextReg ==
    \/ \E node_type \in NodeTypeDefs : register_node_type(node_type)
    \/ \E node_type_id \in TypeIds : call_get_node_type(node_type_id)
    \/ \E category_id \in CategoryIds : get_node_types_by_category(category_id)

SpecReg == InitReg /\ [][NextReg]_vars

\* ------------------------------------------------ step based API: workflows
\* SpecApi: the create, update, delete and execute endpoints of workflows.py,
\* each request served as a whole, over the two collections
\* create_workflow is taken while fewer than MaxWorkflows uuids were drawn, an
\* execute request while fewer than MaxExecutions records are stored
MaxWorkflows == 2
MaxExecutions == 2

\* WorkflowStatus
WorkflowStatuses == {"draft", "active", "running", "completed", "failed", "paused"}

\* the workflow ids a request may name; the last was never given to a workflow
ApiWorkflowIds == {Uuid(n) : n \in 1..(MaxWorkflows + 1)}

\* the input_data of an execute request, as the set of its keys
InputDatas == {{}, {"user_id"}}

\* WorkflowExecution as create_execution builds it: status defaults to
\* RUNNING, the lists to empty, execution_context is input_data or {}
WorkflowExecution(execution_id, workflow_id, input_data) ==
    [execution_id |-> execution_id, workflow_id |-> workflow_id,
     status |-> "running", current_step |-> None,
     completed_steps |-> <<>>, failed_steps |-> <<>>,
     execution_context |-> IF input_data = {} THEN {} ELSE input_data,
     completed_at |-> None, error_message |-> None, error_step |-> None]

\* a request's outcome: the endpoint, the workflow id and input data of the
\* request, the status code answered and the body
ApiResponse(op, workflow_id, input_data, status_code, body) ==
    [op |-> op, workflow_id |-> workflow_id, input_data |-> input_data,
     status_code |-> status_code, body |-> body]

\* a stored Workflow document: what the endpoints read of it
WorkflowDoc(st, steps_, execution_count) ==
    [status |-> st, steps |-> steps_, execution_count |-> execution_count]

InitApi == InitCtl

\* create_workflow with WorkflowCRUD.create_workflow: a DRAFT workflow under a
\* new uuid
create_workflow ==
    /\ db.uuids < MaxWorkflows
    /\ LET workflow_id == Uuid(db.uuids + 1)
       IN  /\ db' = [db EXCEPT
                        !.workflows = (workflow_id :> WorkflowDoc("draft", <<>>, 0)) @@ @,
                        !.uuids = @ + 1]
           /\ response' = ApiResponse("create", workflow_id, {}, "201", "draft")
    /\ UNCHANGED <<active_executions, tasks, now, snapshot, _node_types>>
    /\ UNCHANGED dynvars

\* update_workflow with a request that sets the status
update_workflow(workflow_id, st) ==
    /\ IF workflow_id \in DOMAIN db.workflows
       THEN /\ db' = [db EXCEPT !.workflows[workflow_id].status = st]
            /\ response' = ApiResponse("update", workflow_id, {}, "200", st)
       ELSE /\ db' = db
            /\ response' = ApiResponse("update", workflow_id, {}, "404", None)
    /\ UNCHANGED <<active_executions, tasks, now, snapshot, _node_types>>
    /\ UNCHANGED dynvars

\* delete_workflow
delete_workflow(workflow_id) ==
    /\ IF workflow_id \in DOMAIN db.workflows
       THEN /\ db' = [db EXCEPT !.workflows =
                        [w \in DOMAIN @ \ {workflow_id} |-> @[w]]]
            /\ response' = ApiResponse("delete", workflow_id, {}, "204", None)
       ELSE /\ db' = db
            /\ response' = ApiResponse("delete", workflow_id, {}, "404", None)
    /\ UNCHANGED <<active_executions, tasks, now, snapshot, _node_types>>
    /\ UNCHANGED dynvars

\* WorkflowCRUD.create_execution: inserts the record, then increments the
\* workflow's execution_count (update_one changes nothing without a match)
create_execution(d, workflow_id, input_data) ==
    LET execution == WorkflowExecution(Uuid(d.uuids + 1), workflow_id, input_data)
    IN  [d EXCEPT
            !.executions = Append(@, execution),
            !.workflows = [w \in DOMAIN @ |->
                             IF w = workflow_id
                             THEN [@[w] EXCEPT !.execution_count = @ + 1]
                             ELSE @[w]],
            !.uuids = @ + 1]

\* the execute endpoint without its status check
ExecuteUnchecked(workflow_id, input_data) ==
    /\ Len(db.executions) < MaxExecutions
    /\ IF workflow_id \notin DOMAIN db.workflows
       THEN /\ db' = db
            /\ response' = ApiResponse("execute", workflow_id, input_data, "404", None)
       ELSE /\ db' = create_execution(db, workflow_id, input_data)
            /\ response' = ApiResponse("execute", workflow_id, input_data, "201",
                                       db'.executions[Len(db'.executions)])
    /\ UNCHANGED <<active_executions, tasks, now, snapshot, _node_types>>
    /\ UNCHANGED dynvars

\* execute_workflow of workflows.py: 404 without the workflow, 400 unless its
\* status is ACTIVE, otherwise the record of create_execution with 201
execute_workflow(workflow_id, input_data) ==
    /\ Len(db.executions) < MaxExecutions
    /\ IF workflow_id \notin DOMAIN db.workflows
       THEN /\ db' = db
            /\ response' = ApiResponse("execute", workflow_id, input_data, "404", None)
       ELSE IF db.workflows[workflow_id].status # "active"
       THEN /\ db' = db
            /\ response' = ApiResponse("execute", workflow_id, input_data, "400", None)
       ELSE /\ db' = create_execution(db, workflow_id, input_data)
            /\ response' = ApiResponse("execute", workflow_id, input_data, "201",
                                       db'.executions[Len(db'.executions)])
    /\ UNCHANGED <<active_executions, tasks, now, snapshot, _node_types>>
    /\ UNCHANGED dynvars

NextApi ==
    \/ create_workflow
    \/ \E w \in ApiWorkflowIds : \E st \in WorkflowStatuses : update_workflow(w, st)
    \/ \E w \in ApiWorkflowIds : delete_workflow(w)
    \/ \E w \in ApiWorkflowIds : \E input_data \in InputDatas :
            execute_workflow(w, input_data)

SpecApi == InitApi /\ [][NextApi]_vars

\* ------------------------------------------- WorkflowExecutor: step lists
\* SpecSeq: WorkflowExecutor.execute_workflow on the record of an execution
\* of a stored workflow, one action per iteration of its loop over the steps.
\* The handlers of _execute_step are simulations; that an iteration raises
\* (in _execute_step or at one of its writes) is an input of the run, the
\* raises flag of the step.  The writes of update_execution outside the try
\* body of an iteration are taken to succeed.
\* cap on the length of a workflow's step list
MaxSteps == 3

StepIds == {"s1", "s2", "s3"}

\* WorkflowStepConfig: step id and depends_on, and whether its iteration raises
WorkflowStepConfig(step_id, depends_on, raises) ==
    [step_id |-> step_id, depends_on |-> depends_on, raises |-> raises]

\* a step list: the steps of ids in the given order
StepList(order, deps, raising) ==
    [i \in DOMAIN order |->
        WorkflowStepConfig(order[i], deps[order[i]], order[i] \in raising)]

\* the state after an execute request for an ACTIVE workflow: the workflow
\* under the first uuid, its execution record under the second.  The step
\* lists explored are every ordering of up to MaxSteps steps, with every
\* depends_on among the other step ids and every set of raising steps
InitSeq ==
    /\ wf = [nodes |-> <<>>, connections |-> <<>>]
    /\ validation = NotValidated
    /\ pc = "new"
    /\ status = None
    /\ node_results = {}
    /\ execution_log = <<>>
    /\ events = <<>>
    /\ invocations = <<>>
    /\ steps = <<>>
    /\ tracking = NoTracking
    /\ CtlIdle
    /\ \E ids \in SUBSET StepIds : \E order \in Perms(ids) :
         \E deps \in [ids -> SUBSET StepIds] : \E raising \in SUBSET ids :
            /\ Cardinality(ids) <= MaxSteps
            /\ \A n \in ids : n \notin deps[n]
            /\ db = create_execution(
                    [workflows |->
                        (Uuid(1) :> WorkflowDoc("active",
                                                StepList(order, deps, raising), 0)),
                     executions |-> <<>>, uuids |-> 1],
                    Uuid(1), {})

\* WorkflowCRUD.get_execution: the record of the id, 0 for None
ExecutionIndex(d, execution_id) ==
    IF \E e \in DOMAIN d.executions : d.executions[e].execution_id = execution_id
    THEN CHOOSE e \in DOMAIN d.executions : d.executions[e].execution_id = execution_id
    ELSE 0

\* WorkflowExecutor.execute_workflow up to the loop: ValueError without the
\* record or the workflow, otherwise status RUNNING is written and the loop
\* starts on the record and the steps as read
seq_execute_begin(execution_id) ==
    /\ tasks = <<>>
    /\ LET e == ExecutionIndex(db, execution_id)
       IN  IF e = 0 \/ db.executions[e].workflow_id \notin DOMAIN db.workflows
           THEN /\ tasks' = <<[execution_id |-> execution_id, pc |-> "raised"]>>
                /\ db' = db
           ELSE /\ db' = [db EXCEPT !.executions[e].status = "running",
                                    !.executions[e].current_step = None]
                /\ tasks' = <<[execution_id |-> execution_id, pc |-> "loop", i |-> 1,
                               execution |-> db.executions[e],
                               steps |-> db.workflows[db.executions[e].workflow_id].steps]>>
    /\ UNCHANGED <<active_executions, now, response, snapshot, _node_types>>
    /\ UNCHANGED dynvars

\* where an iteration can raise: at its write of current_step, in
\* _execute_step, or at its write of completed_steps (the write not made)
RaisePoints == {"current_step", "_execute_step", "completed_steps"}

\* the _execute_step calls made so far with the one of this iteration, which
\* is not made when the iteration raised before it
Executed(step, execution, at) ==
    IF step.raises /\ at = "current_step"
    THEN invocations
    ELSE Append(invocations,
                Invocation(step.step_id, Range(execution.completed_steps), <<>>,
                           ~(step.raises /\ at = "_execute_step")))

\* the record after the except branch of an iteration that raised at the point
StepFailed(d, e, step, execution, at) ==
    [d EXCEPT !.executions[e].current_step =
                    IF at = "current_step" THEN @ ELSE step.step_id,
              !.executions[e].failed_steps =
                    Append(execution.failed_steps, step.step_id),
              !.executions[e].error_message = "set",
              !.executions[e].error_step = step.step_id,
              !.executions[e].status = "failed"]

\* the record and the local execution after an iteration that did not raise
StepCompleted(d, e, step, execution) ==
    [d EXCEPT !.executions[e].current_step = step.step_id,
              !.executions[e].completed_steps =
                    Append(execution.completed_steps, step.step_id),
              !.executions[e].execution_context = @ \cup {"message"}]

\* an iteration whose except branch marks the step failed and goes on with
\* the next step instead of returning
SeqStepContinues(t) ==
    /\ tasks[t].pc = "loop"
    /\ tasks[t].i <= Len(tasks[t].steps)
    /\ LET step == tasks[t].steps[tasks[t].i]
           execution == tasks[t].execution
           e == ExecutionIndex(db, tasks[t].execution_id)
       IN  \E at \in RaisePoints :
             /\ invocations' = Executed(step, execution, at)
             /\ IF ~step.raises
                THEN /\ db' = StepCompleted(db, e, step, execution)
                     /\ tasks' = [tasks EXCEPT
                                  ![t].execution.completed_steps =
                                        Append(@, step.step_id),
                                  ![t].i = @ + 1]
                ELSE /\ db' = StepFailed(db, e, step, execution, at)
                     /\ tasks' = [tasks EXCEPT ![t].i = @ + 1]
    /\ UNCHANGED <<wf, validation, pc, status, node_results, execution_log, events,
                   steps, tracking>>
    /\ UNCHANGED <<active_executions, now, response, snapshot, _node_types>>

\* one iteration of the loop over workflow.steps: the step is made the current
\* one and executed and its id is added to completed_steps; when the iteration
\* raises, the except branch adds its id to failed_steps with error_step and
\* status FAILED, and the run returns
seq_execute_step(t) ==
    /\ tasks[t].pc = "loop"
    /\ tasks[t].i <= Len(tasks[t].steps)
    /\ LET step == tasks[t].steps[tasks[t].i]
           execution == tasks[t].execution
           e == ExecutionIndex(db, tasks[t].execution_id)
       IN  \E at \in RaisePoints :
             /\ invocations' = Executed(step, execution, at)
             /\ IF ~step.raises
                THEN /\ db' = StepCompleted(db, e, step, execution)
                     /\ tasks' = [tasks EXCEPT
                                  ![t].execution.completed_steps =
                                        Append(@, step.step_id),
                                  ![t].i = @ + 1]
                ELSE /\ db' = StepFailed(db, e, step, execution, at)
                     /\ tasks' = [tasks EXCEPT ![t].pc = "returned"]
    /\ UNCHANGED <<wf, validation, pc, status, node_results, execution_log, events,
                   steps, tracking>>
    /\ UNCHANGED <<active_executions, now, response, snapshot, _node_types>>

\* WorkflowExecutor.execute_workflow after the loop: status COMPLETED with
\* completed_at
seq_execute_finish(t) ==
    /\ tasks[t].pc = "loop"
    /\ tasks[t].i > Len(tasks[t].steps)
    /\ LET e == ExecutionIndex(db, tasks[t].execution_id)
       IN  db' = [db EXCEPT !.executions[e].status = "completed",
                            !.executions[e].completed_at = "set",
                            !.executions[e].current_step = None]
    /\ tasks' = [tasks EXCEPT ![t].pc = "returned"]
    /\ UNCHANGED <<active_executions, now, response, snapshot, _node_types>>
    /\ UNCHANGED dynvars

\* the execution ids the executor may be called with; the last has no record
SeqExecutionIds == {Uuid(2), Uuid(3)}

NextSeq ==
    \/ \E execution_id \in SeqExecutionIds : seq_execute_begin(execution_id)
    \/ \E t \in DOMAIN tasks : seq_execute_step(t)
    \/ \E t \in DOMAIN tasks : seq_execute_finish(t)

SpecSeq == InitSeq /\ [][NextSeq]_vars

\* ------------------------------------------------- vocabulary of the claims
\* distinct upstream source ids of a node's incoming connections
UpstreamOf(w, n) ==
    {c.source_node_id : c \in {d \in Range(w.connections) : d.target_node_id = n}}

Succ(w, n) ==
    {c.target_node_id : c \in {d \in Range(w.connections) : d.source_node_id = n}}

RECURSIVE ReachFrom(_, _, _)
ReachFrom(w, S, k) ==
    IF k = 0 THEN S
    ELSE ReachFrom(w, S \cup UNION {Succ(w, n) : n \in S}, k - 1)

\* the connections contain a directed cycle
HasCycle(w) ==
    \E n \in NodeIdsOf(w) : n \in ReachFrom(w, Succ(w, n), Len(w.connections))

\* connections with an end that is no node of the workflow
Dangling(w) ==
    {c \in Range(w.connections) :
        \/ c.source_node_id \notin NodeIdsOf(w)
        \/ c.target_node_id \notin NodeIdsOf(w)}

\* number of times the handler of node n ran
HandlerRuns(n) ==
    Cardinality({i \in DOMAIN invocations :
                    invocations[i].node_id = n /\ invocations[i].ok})

\* the step status of node n as the run's records show it
StepStatus(n) ==
    IF \E i \in DOMAIN execution_log : execution_log[i] = LogEntry(n, "error")
        THEN "failed"
    ELSE IF \E i \in DOMAIN execution_log : execution_log[i] = LogEntry(n, "completed")
        THEN "completed"
    ELSE IF \E i \in DOMAIN invocations : invocations[i].node_id = n
        THEN IF \E i \in DOMAIN invocations :
                    invocations[i].node_id = n /\ invocations[i].ok
             THEN "running" ELSE "failed"
    ELSE "waiting"

\* ------------------------------------------------------------------ claims
\* C1: a node's handler is dispatched only after every distinct upstream
\* source of its incoming connections has completed and has a recorded
\* result, the first node dispatched included.
C1_DispatchAfterUpstream ==
    \A i \in DOMAIN invocations :
        UpstreamOf(wf, invocations[i].node_id) \subseteq invocations[i].results

\* C2: in one run each node's handler is invoked at most once, for every
\* graph shape, parallel connections between the same two nodes included.
C2_HandlerAtMostOnce ==
    \A n \in NodeIdsOf(wf) : HandlerRuns(n) <= 1

\* C3: a workflow whose connections contain a cycle is rejected at validation
\* with a cycle error, and none of its nodes is ever executed.
C3_CycleRejected ==
    HasCycle(wf) =>
        /\ invocations = <<>>
        /\ pc # "new" =>
            /\ ~validation.valid
            /\ \E i \in DOMAIN validation.errors : validation.errors[i].kind = "cycle"

\* C4: a connection whose source or target is no node of the workflow yields
\* a validation error naming that connection's id, and the workflow is never
\* executed.
C4_DanglingRejected ==
    \A c \in Dangling(wf) :
        /\ pc \in {"new", "stored"}
        /\ pc # "new" =>
            \E i \in DOMAIN validation.errors : c.id \in validation.errors[i].names

\* C5: once a run's overall status is completed, failed or cancelled it never
\* changes again, whatever control command or step of the run's task follows.
C5_TerminalIsFinal ==
    [][\A e \in DOMAIN active_executions :
          active_executions[e].status \in Terminal =>
              /\ e \in DOMAIN active_executions'
              /\ active_executions'[e].status = active_executions[e].status]_vars

\* C6: after Cancel succeeded on a run that was in progress, the run's
\* overall status is cancelled, whatever the run's task does afterwards.
C6_CancelSticks ==
    (response.op = "cancel" /\ response.result = "200" /\ response.was = "running") =>
        StatusOf(response.execution_id) = "cancelled"

\* C7: Pause succeeds only on a run whose status is running and otherwise
\* returns false (404) and changes nothing; Resume succeeds only from paused.
C7_PauseResumeContract ==
    /\ response.op = "pause" =>
          /\ response.result \in {"200", "404"}
          /\ response.result = "200" <=> response.was = "running"
    /\ response.op = "resume" =>
          /\ response.result \in {"200", "404"}
          /\ response.result = "200" <=> response.was = "paused"

\* C8: if any node's handler fails during a run, the run's overall status ends
\* as failed and is never completed.
C8_FailureFailsRun ==
    (\E i \in DOMAIN invocations : ~invocations[i].ok) =>
        /\ status # "completed"
        /\ pc = "done" => status = "failed"

\* C9: whenever the run's overall status is completed, every node has reached
\* a terminal step status and none has failed.
C9_CompletedMeansAllDone ==
    status = "completed" =>
        \A n \in NodeIdsOf(wf) : StepStatus(n) = "completed"

\* C10: a valid acyclic workflow whose handlers all succeed ends with overall
\* status completed and every node's step completed.
C10_ValidRunCompletes ==
    (pc = "done" /\ _validate_visual_workflow(wf).valid /\ ~HasCycle(wf)) =>
        /\ status = "completed"
        /\ \A n \in NodeIdsOf(wf) : StepStatus(n) = "completed"

\* ------------------------------------------------ vocabulary, C11 onwards
\* nodes without an incoming connection
Roots(w) ==
    {n \in NodeIdsOf(w) : \A c \in Range(w.connections) : c.target_node_id # n}

\* the nodes the start of the run dispatched
Seeded == IF invocations = <<>> THEN {} ELSE {invocations[1].node_id}

\* the run has started: process_start has been handled
Started == pc \notin {"new", "stored", "created"}

IncomingOf(w, n) == SelectSeq(w.connections, LAMBDA c : c.target_node_id = n)

TargetKey(c) == IF c.target_input = None THEN "input" ELSE c.target_input

SourceKey(c) == IF c.source_output = None THEN "result" ELSE c.source_output

\* the value connection c is to deliver: the named field of the upstream
\* result when the result has it, the whole result otherwise
Delivered(w, c) ==
    IF SourceKey(c) \in ResultKeys(_find_node_by_id(w, c.source_node_id).node_type_id)
    THEN FieldOf(c.source_node_id, SourceKey(c))
    ELSE WholeOf(c.source_node_id)

\* pairs of incoming connections of one node that write the same input key
Collisions(w) ==
    {<<j, k>> \in (DOMAIN w.connections) \X (DOMAIN w.connections) :
        /\ j < k
        /\ w.connections[j].target_node_id = w.connections[k].target_node_id
        /\ TargetKey(w.connections[j]) = TargetKey(w.connections[k])}

\* a handler's exception left process_start and ended the run
Escaped == pc = "raised" /\ Len(invocations) = 1 /\ ~invocations[1].ok

\* C11: when the run starts, every node without incoming connection is
\* dispatched, whatever its type's category and its place in the node list,
\* and no node with an incoming connection is used as a start node.
C11_AllRootsSeeded ==
    Started => Seeded = Roots(wf)

\* C13: a dispatched node's input map has, for every incoming connection, an
\* entry under the connection's target_input key holding the value an
\* incoming connection with that key delivers.
C13_InputsGathered ==
    \A i \in DOMAIN invocations :
        \A c \in Range(IncomingOf(wf, invocations[i].node_id)) :
            /\ TargetKey(c) \in DOMAIN invocations[i].input_data
            /\ \E d \in Range(IncomingOf(wf, invocations[i].node_id)) :
                  /\ TargetKey(d) = TargetKey(c)
                  /\ invocations[i].input_data[TargetKey(c)] = Delivered(wf, d)

\* C14: when two incoming connections of a node use the same target_input
\* key, the node receives the value of the one later in the connection list,
\* and validation reports the collision as a warning.
C14_LastWriteWins ==
    \A p \in Collisions(wf) :
        /\ pc # "new" =>
              \E i \in DOMAIN validation.warnings :
                  validation.warnings[i].kind = "input_collision"
        /\ \A i \in DOMAIN invocations :
              (/\ invocations[i].node_id = wf.connections[p[2]].target_node_id
               /\ ~\E q \in Collisions(wf) : q[1] = p[2])
              => /\ TargetKey(wf.connections[p[2]]) \in DOMAIN invocations[i].input_data
                 /\ invocations[i].input_data[TargetKey(wf.connections[p[2]])]
                        = Delivered(wf, wf.connections[p[2]])

\* C15: a node whose type has no registered handler is run by the generic
\* pass-through handler and its step completes; it never fails.
C15_UnknownTypeIsGeneric ==
    \A i \in DOMAIN invocations :
        get_node_type(_find_node_by_id(wf, invocations[i].node_id).node_type_id) = NoType
        => /\ invocations[i].ok
           /\ StepStatus(invocations[i].node_id) # "failed"

\* C16: an exception raised by a node handler, of a start node as of a
\* dependent node, is recorded on that node's step as failed and never
\* leaves the execution loop.
C16_HandlerErrorCaptured ==
    /\ ~Escaped
    /\ \A i \in DOMAIN invocations :
          ~invocations[i].ok =>
              \E j \in DOMAIN execution_log :
                  execution_log[j] = LogEntry(invocations[i].node_id, "error")

\* C18: a new execution context is pending and becomes running only when
\* its first node is dispatched.
C18_PendingUntilDispatch ==
    (status # None /\ invocations = <<>> /\ wf.nodes # <<>>) => status = "pending"

\* the problems of a workflow that validation is to list, one element each
Problems(w) ==
    {<<"duplicate_node", i>> : i \in {i \in DOMAIN w.nodes :
        \E j \in 1..(i - 1) : w.nodes[j].node_id = w.nodes[i].node_id}}
    \cup
    {<<"unknown_type", i>> : i \in {i \in DOMAIN w.nodes :
        get_node_type(w.nodes[i].node_type_id) = NoType}}
    \cup
    {<<"missing_field", i>> : i \in {i \in DOMAIN w.nodes :
        get_node_type(w.nodes[i].node_type_id).required \ w.nodes[i].config # {}}}
    \cup
    {<<"missing_source", j>> : j \in {j \in DOMAIN w.connections :
        w.connections[j].source_node_id \notin NodeIdsOf(w)}}
    \cup
    {<<"missing_target", j>> : j \in {j \in DOMAIN w.connections :
        w.connections[j].target_node_id \notin NodeIdsOf(w)}}

ProblemKinds ==
    {"duplicate_node", "unknown_type", "missing_field", "missing_source",
     "missing_target"}

StepTrace(n) ==
    LET own == SelectSeq(execution_log, LAMBDA e : e.node_id = n)
    IN  [i \in DOMAIN own |-> own[i].status]

TwoNodeChain ==
    /\ Len(wf.nodes) = 2
    /\ Len(wf.connections) = 1
    /\ wf.connections[1].source_node_id = "A"
    /\ wf.connections[1].target_node_id = "B"
    /\ \A i \in DOMAIN wf.nodes : get_node_type(wf.nodes[i].node_type_id) # NoType

\* the logged status changes of the nodes and the final one of the run
Transitions ==
    SelectSeq(execution_log, LAMBDA e : e # LogEntry("workflow", "running"))

\* C19: for a two-node linear workflow n1 -> n2 whose handlers succeed the
\* status changes recorded for the run are exactly n1 running, n1 completed,
\* n2 running, n2 completed, run completed, and the run does not end otherwise.
C19_LinearEventSequence ==
    TwoNodeChain =>
        /\ pc # "raised"
        /\ pc = "stopped" =>
              Transitions = <<LogEntry("A", "running"), LogEntry("A", "completed"),
                              LogEntry("B", "running"), LogEntry("B", "completed"),
                              LogEntry("workflow", "completed")>>

\* ------------------------------------------------ vocabulary, C21 onwards
\* the identities of the dicts the run table holds
TableObjects == {active_executions[e].obj : e \in DOMAIN active_executions}

\* C21: the value a status query returned shares no mutable state with the
\* engine: it is none of the engine's own objects, so that a write to it
\* never reaches the engine, and no later write of the engine changes it.
C21_SnapshotIsolated ==
    snapshot.given =>
        /\ snapshot.obj \notin TableObjects
        /\ snapshot.seen = snapshot.returned

Registered(d) == {DictGet(d, k) : k \in {d[i].key : i \in DOMAIN d}}

\* C23: after register_node_type(def) a lookup of def.id returns def, in
\* place of any earlier definition of that id, and the lookup of every other
\* id is as before; a lookup of an id that was never registered returns the
\* not-found value; the list of a category holds exactly the registered
\* types of that category, each once.
C23_RegistryContract ==
    [][/\ response'.op = "register" =>
            /\ DictGet(_node_types', response'.execution_id.id)
                  = response'.execution_id
            /\ \A k \in TypeIds \ {response'.execution_id.id} :
                  DictGet(_node_types', k) = DictGet(_node_types, k)
       /\ response'.op = "get" =>
            /\ _node_types' = _node_types
            /\ (\A i \in DOMAIN _node_types :
                    _node_types[i].key # response'.execution_id)
               => response'.returned = NoType
            /\ response'.returned \in Registered(_node_types) \cup {NoType}
       /\ response'.op = "by_category" =>
            /\ _node_types' = _node_types
            /\ Range(response'.returned) =
                  {t \in Registered(_node_types) :
                      t.category = response'.execution_id}
            /\ Len(response'.returned) = Cardinality(Range(response'.returned))
      ]_vars

\* a category was listed after a registered type had been replaced by a
\* definition of another category and a new type had been added
C23_Witness ==
    /\ response.op = "by_category"
    /\ response.execution_id = "integrations"
    /\ Len(_node_types) = 3
    /\ DictGet(_node_types, "webhook_trigger").category = "integrations"
    /\ Len(response.returned) = 3

\* C24: the execute endpoint answers 404 for a missing workflow and 400 for
\* a workflow whose status is not ACTIVE, and in both cases no execution
\* record is created and no execution_count changes; for an ACTIVE workflow it
\* answers with exactly one new record, of status running and with the
\* request's input_data as execution_context, and that workflow's
\* execution_count grows by exactly 1.
C24_ExecuteOnlyActive ==
    [][response'.op = "execute" =>
        LET w == response'.workflow_id
        IN  /\ w \notin DOMAIN db.workflows =>
                  /\ response'.status_code = "404"
                  /\ db' = db
            /\ (w \in DOMAIN db.workflows /\ db.workflows[w].status # "active") =>
                  /\ response'.status_code = "400"
                  /\ db' = db
            /\ (w \in DOMAIN db.workflows /\ db.workflows[w].status = "active") =>
                  /\ response'.status_code = "201"
                  /\ Len(db'.executions) = Len(db.executions) + 1
                  /\ SubSeq(db'.executions, 1, Len(db.executions)) = db.executions
                  /\ response'.body = db'.executions[Len(db'.executions)]
                  /\ response'.body.workflow_id = w
                  /\ response'.body.status = "running"
                  /\ response'.body.execution_context = response'.input_data
                  /\ \A e \in DOMAIN db.executions :
                        db.executions[e].execution_id # response'.body.execution_id
                  /\ DOMAIN db'.workflows = DOMAIN db.workflows
                  /\ db'.workflows[w].execution_count
                        = db.workflows[w].execution_count + 1
                  /\ db'.workflows[w].status = "active"
                  /\ \A v \in DOMAIN db.workflows \ {w} :
                        db'.workflows[v] = db.workflows[v]
      ]_vars

\* an ACTIVE workflow was executed a second time, with input data, beside a
\* workflow that is not ACTIVE
C24_Witness ==
    /\ response.op = "execute"
    /\ response.status_code = "201"
    /\ response.input_data = {"user_id"}
    /\ db.workflows[response.workflow_id].execution_count = 2
    /\ \E v \in DOMAIN db.workflows : db.workflows[v].status = "paused"

\* the nodes whose step is completed
CompletedNodes == {n \in DOMAIN steps : steps[n] = "completed"}

\* C25: in every state of an execution context the completed counter is the
\* number of distinct nodes whose step is completed and is at most
\* total_steps, the overall progress is the floor of 100 * completed /
\* total_steps and lies in 0..100, and it is 100 only when every step is
\* completed.
C25_ProgressCounts ==
    /\ tracking.completed_step_count = Cardinality(CompletedNodes)
    /\ tracking.completed_step_count <= tracking.total_steps
    /\ tracking.total_steps > 0 =>
          tracking.overall_progress =
              (100 * tracking.completed_step_count) \div tracking.total_steps
    /\ tracking.overall_progress \in 0..100
    /\ tracking.overall_progress = 100 => CompletedNodes = DOMAIN steps

C27_TerminalHasEndTime ==
    /\ status \in Terminal <=> tracking.end_time # None
    /\ \A e \in DOMAIN db.executions :
          db.executions[e].status \in Terminal
          <=> db.executions[e].completed_at # None

\* C28: concurrent execute_workflow calls, two for the same workflow among
\* them, each get an execution id of their own and their own entry of the run
\* table: no two calls share an id, and the entry under a call's id is the
\* one that call stored, so that no entry is overwritten by another run and
\* the update of a run's task reaches that run's entry only.
C28_RunsKeepOwnEntry ==
    /\ \A t, u \in DOMAIN tasks :
          t # u => tasks[t].execution_id # tasks[u].execution_id
    /\ \A t \in DOMAIN tasks :
          /\ tasks[t].execution_id \in DOMAIN active_executions
          /\ active_executions[tasks[t].execution_id].obj = t

\* the run of the sequential executor, once it has read record and steps
SeqRunning == tasks # <<>> /\ tasks[1].pc \in {"loop", "returned"}

\* the step ids of the run's workflow in list order
SeqIds == [i \in DOMAIN tasks[1].steps |-> tasks[1].steps[i].step_id]

\* the index of the first step of the list that raises, 0 when none does
FirstRaising ==
    IF \E i \in DOMAIN tasks[1].steps : tasks[1].steps[i].raises
    THEN CHOOSE i \in DOMAIN tasks[1].steps :
            /\ tasks[1].steps[i].raises
            /\ \A j \in 1..(i - 1) : ~tasks[1].steps[j].raises
    ELSE 0

\* the stored record of the run
SeqRecord == db.executions[ExecutionIndex(db, tasks[1].execution_id)]

\* the ids of the steps _execute_step was called for, in the order of the calls
ExecutedIds == [j \in DOMAIN invocations |-> invocations[j].node_id]

\* C29: in the sequential executor steps run in list order and the first step
\* that raises stops the run: the execution is FAILED with error_step that
\* step and failed_steps holding it, completed_steps is exactly the ids of the
\* steps before it in list order, no later step is executed and the status
\* is never COMPLETED afterwards.  If no step raises the run ends COMPLETED
\* with completed_steps all step ids in order and failed_steps empty.
C29_FirstRaiseStops ==
    SeqRunning =>
        /\ ExecutedIds = SubSeq(SeqIds, 1, Len(ExecutedIds))
        /\ SeqRecord.status = "failed" =>
              /\ FirstRaising # 0
              /\ tasks[1].pc = "returned"
              /\ SeqRecord.error_step = SeqIds[FirstRaising]
              /\ SeqRecord.failed_steps = <<SeqIds[FirstRaising]>>
              /\ SeqRecord.completed_steps = SubSeq(SeqIds, 1, FirstRaising - 1)
              /\ Len(ExecutedIds) <= FirstRaising
        /\ SeqRecord.status = "completed" =>
              /\ FirstRaising = 0
              /\ SeqRecord.completed_steps = SeqIds
              /\ SeqRecord.failed_steps = <<>>
              /\ ExecutedIds = SeqIds
        /\ tasks[1].pc = "returned" =>
              SeqRecord.status = (IF FirstRaising = 0 THEN "completed" ELSE "failed")

\* a run of three steps returned FAILED at its second step, which raised in
\* _execute_step: the first step is completed and the third was not executed
C29_Witness ==
    /\ SeqRunning
    /\ tasks[1].pc = "returned"
    /\ Len(SeqIds) = 3
    /\ FirstRaising = 2
    /\ SeqRecord.status = "failed"
    /\ SeqRecord.error_step = SeqIds[2]
    /\ SeqRecord.completed_steps = <<SeqIds[1]>>
    /\ ExecutedIds = <<SeqIds[1], SeqIds[2]>>

\* C30: in the sequential executor a step is executed only after every step
\* id listed in its depends_on has completed in the same run, for every
\* ordering of the workflow's step list.
C30_DependsOnHonoured ==
    SeqRunning =>
        \A j \in DOMAIN invocations :
            tasks[1].steps[j].depends_on \subseteq invocations[j].results
====
